---- MODULE Spec2Model ----
(***************************************************************************)
(* CollectorConfig: resolution of the collector configuration from the     *)
(* compiled defaults, the CollectorArgs blob, the environment and the host *)
(* heuristics (collector/lib/CollectorConfig.cpp).                         *)
(*                                                                         *)
(* Text that the code parses (std::stoi, std::stod, atof, std::getline) is *)
(* a sequence of one-character strings; text that the code only compares   *)
(* or stores (syscall names, the collection-method selector, network       *)
(* prefixes, the hostname) is an atomic string.                            *)
(***************************************************************************)
EXTENDS Integers, Sequences, FiniteSets

VARIABLES host, build, args, env, config, log_level, pc, runs, first, log, steps

vars == <<host, build, args, env, config, log_level, pc, runs, first, log, steps>>

inputs == <<host, build, args, env>>

(***************************************************************************)
(* Bounds of the model.                                                    *)
(***************************************************************************)
MaxRuns == 2
MaxNets == 3
MaxSyscalls == 2
MaxTokens == 3
MaxFlipped == 1

(***************************************************************************)
(* Characters and numbers.                                                 *)
(***************************************************************************)
Digits == {"0", "1", "2", "3", "4", "5", "6", "7", "8", "9"}

DigitVal(c) ==
  CASE c = "0" -> 0 [] c = "1" -> 1 [] c = "2" -> 2 [] c = "3" -> 3
    [] c = "4" -> 4 [] c = "5" -> 5 [] c = "6" -> 6 [] c = "7" -> 7
    [] c = "8" -> 8 [] c = "9" -> 9

IsSpace(c) == c \in {" ", "\t", "\n"}

INT_MAX == 2147483647

INT_MIN == (0 - INT_MAX) - 1

RECURSIVE Pow10(_)
Pow10(k) == IF k <= 0 THEN 1 ELSE 10 * Pow10(k - 1)

RECURSIVE NumDigits(_)
NumDigits(n) == IF n < 10 THEN 1 ELSE 1 + NumDigits(n \div 10)

Abs(n) == IF n < 0 THEN 0 - n ELSE n

\* first index >= i of s that holds no white space (Len(s)+1 if none)
RECURSIVE SkipSpace(_, _)
SkipSpace(s, i) ==
  IF i <= Len(s) /\ IsSpace(s[i]) THEN SkipSpace(s, i + 1) ELSE i

\* first index >= i of s that holds no decimal digit (Len(s)+1 if none)
RECURSIVE DigitsEnd(_, _)
DigitsEnd(s, i) ==
  IF i <= Len(s) /\ s[i] \in Digits THEN DigitsEnd(s, i + 1) ELSE i

HasSign(s, i) == i <= Len(s) /\ s[i] \in {"+", "-"}

\* the digits s[i..j-1] accumulated as a negative int; ov when it leaves int
RECURSIVE AccNeg(_, _, _, _)
AccNeg(s, i, j, acc) ==
  IF i >= j THEN [ov |-> FALSE, v |-> acc]
  ELSE LET d == DigitVal(s[i]) IN
       IF acc < 0 - 214748364 \/ acc * 10 < INT_MIN + d
       THEN [ov |-> TRUE, v |-> 0]
       ELSE AccNeg(s, i + 1, j, acc * 10 - d)

\* the digits s[i..j-1] as a natural number (at most nine digits are read by
\* the inputs of this model)
RECURSIVE AccNat(_, _, _, _)
AccNat(s, i, j, acc) ==
  IF i >= j THEN acc ELSE AccNat(s, i + 1, j, acc * 10 + DigitVal(s[i]))

(***************************************************************************)
(* std::stoi(str): strtol in base 10, std::invalid_argument when no digit  *)
(* is converted, std::out_of_range when the value leaves int. Text after   *)
(* the number is ignored.                                                  *)
(***************************************************************************)
StoiResult(neg, converted, a) ==
  IF ~converted THEN [err |-> "invalid_argument", v |-> 0]
  ELSE IF a.ov \/ (~neg /\ a.v = INT_MIN) THEN [err |-> "out_of_range", v |-> 0]
  ELSE [err |-> "none", v |-> IF neg THEN a.v ELSE 0 - a.v]

StoiDigits(s, neg, i1, j) == StoiResult(neg, j > i1, AccNeg(s, i1, j, 0))

StoiSign(s, i0) ==
  IF HasSign(s, i0) THEN StoiDigits(s, s[i0] = "-", i0 + 1, DigitsEnd(s, i0 + 1))
  ELSE StoiDigits(s, FALSE, i0, DigitsEnd(s, i0))

Stoi(s) == StoiSign(s, SkipSpace(s, 1))

(***************************************************************************)
(* A double is the decimal number m * 10^x, normalised so that equal       *)
(* numbers are equal records (m carries the sign, m has no trailing zero). *)
(***************************************************************************)
RECURSIVE Dec(_, _)
Dec(m, x) ==
  IF m = 0 THEN [m |-> 0, x |-> 0]
  ELSE IF m % 10 = 0 THEN Dec(m \div 10, x + 1)
  ELSE [m |-> m, x |-> x]

\* strtod's scan of a decimal floating literal: white space, sign, digits
\* s[i1..j1-1], an optional fraction s[f1..f2-1], an optional exponent ex that
\* has at least one digit
FloatOf(s, neg, i1, j1, f1, f2, ex) ==
  [conv |-> (j1 - i1) + (f2 - f1) > 0,
   val |-> IF neg THEN Dec(0 - AccNat(s, f1, f2, AccNat(s, i1, j1, 0)), ex - (f2 - f1))
           ELSE Dec(AccNat(s, f1, f2, AccNat(s, i1, j1, 0)), ex - (f2 - f1))]

ScanExpDigits(s, neg, i1, j1, f1, f2, eneg, e1, e2) ==
  IF e2 > e1
  THEN FloatOf(s, neg, i1, j1, f1, f2,
               IF eneg THEN 0 - AccNat(s, e1, e2, 0) ELSE AccNat(s, e1, e2, 0))
  ELSE FloatOf(s, neg, i1, j1, f1, f2, 0)

ScanExponent(s, neg, i1, j1, f1, f2) ==
  IF f2 <= Len(s) /\ s[f2] \in {"e", "E"}
  THEN IF HasSign(s, f2 + 1)
       THEN ScanExpDigits(s, neg, i1, j1, f1, f2, s[f2 + 1] = "-", f2 + 2, DigitsEnd(s, f2 + 2))
       ELSE ScanExpDigits(s, neg, i1, j1, f1, f2, FALSE, f2 + 1, DigitsEnd(s, f2 + 1))
  ELSE FloatOf(s, neg, i1, j1, f1, f2, 0)

ScanPoint(s, neg, i1, j1) ==
  IF j1 <= Len(s) /\ s[j1] = "."
  THEN ScanExponent(s, neg, i1, j1, j1 + 1, DigitsEnd(s, j1 + 1))
  ELSE ScanExponent(s, neg, i1, j1, j1, j1)

ScanSign(s, i0) ==
  IF HasSign(s, i0) THEN ScanPoint(s, s[i0] = "-", i0 + 1, DigitsEnd(s, i0 + 1))
  ELSE ScanPoint(s, FALSE, i0, DigitsEnd(s, i0))

ScanFloat(s) == ScanSign(s, SkipSpace(s, 1))

\* position of the leading decimal digit of d: d is in [10^(k-1), 10^k)
Magnitude(d) == NumDigits(Abs(d.m)) + d.x

\* the finite doubles end near 1.8e308 and the subnormals near 4.9e-324
DBL_MAX_10_EXP == 308

DBL_MIN_DENORM_10_EXP == 0 - 323

FloatRangeError(d) ==
  d.m # 0 /\ (Magnitude(d) > DBL_MAX_10_EXP + 1 \/ Magnitude(d) < DBL_MIN_DENORM_10_EXP)

(***************************************************************************)
(* std::stod(str): std::invalid_argument when nothing is converted,        *)
(* std::out_of_range when strtod reports ERANGE.                           *)
(***************************************************************************)
StodResult(f) ==
  IF ~f.conv THEN [err |-> "invalid_argument", v |-> Dec(0, 0)]
  ELSE IF FloatRangeError(f.val) THEN [err |-> "out_of_range", v |-> Dec(0, 0)]
  ELSE [err |-> "none", v |-> f.val]

Stod(s) == StodResult(ScanFloat(s))

\* atof(str): strtod without error reporting; 0.0 when nothing is converted
AtofResult(f) == IF f.conv THEN f.val ELSE Dec(0, 0)

Atof(s) == AtofResult(ScanFloat(s))

(***************************************************************************)
(* int64_t. TLC's integers end at 2^31-1, so an int64 of magnitude below   *)
(* 10^9 is kept exactly (big = 0) and any other is kept as its sign        *)
(* (big = 1: at least 10^9, big = -1: at most -10^9). The code only        *)
(* compares the period with 0 and with 300000000 and stores it.            *)
(***************************************************************************)
I64(n) == [big |-> 0, n |-> n]

I64Above == [big |-> 1, n |-> 0]

I64Below == [big |-> 0 - 1, n |-> 0]

I64Less(a, b) == a.big < b.big \/ (a.big = 0 /\ b.big = 0 /\ a.n < b.n)

\* the leading nine digits of INT64_MAX = 9223372036854775807
INT64_MAX_LEAD9 == 922337203

\* what a build may deliver for static_cast<int64_t> of a positive double
\* outside int64 (undefined behaviour): x86-64 cvttsd2si yields INT64_MIN, a
\* saturating conversion (AArch64 fcvtzs) yields INT64_MAX
UBCastOutcomes == {I64Below, I64Above}

\* static_cast<int64_t>(d * 1000000). The product is taken exactly (binary
\* rounding of the double is not modelled). ub: what this build delivers when
\* the product is outside int64.
CastMicros(d, ub) ==
  LET k == d.x + 6
      nd == NumDigits(Abs(d.m))
      mag == nd + k
      sgn == IF d.m < 0 THEN I64Below ELSE I64Above
  IN IF d.m = 0 THEN I64(0)
     ELSE IF k < 0
          THEN IF 0 - k > 9 THEN I64(0)
               ELSE IF d.m < 0 THEN I64(0 - (Abs(d.m) \div Pow10(0 - k)))
               ELSE I64(d.m \div Pow10(0 - k))
     ELSE IF mag <= 9 THEN I64(d.m * Pow10(k))
     ELSE IF mag <= 18 \/ (mag = 19 /\ Abs(d.m) * Pow10(9 - nd) <= INT64_MAX_LEAD9)
          THEN sgn
     ELSE ub

(***************************************************************************)
(* Json::Value as far as the resolver uses it. s: the text of a string     *)
(* value; b: a bool value; a: the elements of an array (their asString())  *)
(* or the member names of an object.                                       *)
(***************************************************************************)
JNull == [t |-> "null", s |-> <<>>, b |-> FALSE, a |-> <<>>]

JString(str) == [t |-> "string", s |-> str, b |-> FALSE, a |-> <<>>]

JBool(v) == [t |-> "bool", s |-> <<>>, b |-> v, a |-> <<>>]

JArray(elems) == [t |-> "array", s |-> <<>>, b |-> FALSE, a |-> elems]

JObject(members) == [t |-> "object", s |-> <<>>, b |-> FALSE, a |-> members]

\* Json::Value::empty(): null, or an array or object of size 0
JsonEmpty(v) == v.t = "null" \/ (v.t \in {"array", "object"} /\ Len(v.a) = 0)

IsArray(v) == v.t = "array"

\* Json::Value::asString() of a null, string or bool value
AsString(v) ==
  CASE v.t = "string" -> v.s
    [] v.t = "bool" -> IF v.b THEN <<"t", "r", "u", "e">> ELSE <<"f", "a", "l", "s", "e">>
    [] OTHER -> <<>>

AsBool(v) == v.b

(***************************************************************************)
(* Compiled defaults (CollectorConfig.h) and the defaults set in the .cpp. *)
(***************************************************************************)
CollectionMethod == {"EBPF", "CORE_BPF"}

kScrapeInterval == 30

kTurnOffScrape == FALSE

kSyscalls == <<"accept", "execve">>

kEnableProcessesListeningOnPorts == TRUE

kIgnoredL4ProtoPortPairs == {<<"UDP", 9>>}

kSinspThreadCacheSize == 32768

DEFAULT_CPU_FOR_EACH_BUFFER == 2

DEFAULT_DRIVER_BUFFER_BYTES_DIM == 8388608

max_afterglow_period_micros == 300000000

kConnectionStatsQuantiles == <<Dec(50, 0 - 2), Dec(90, 0 - 2), Dec(95, 0 - 2)>>

kConnectionStatsError == Dec(1, 0 - 2)

kConnectionStatsWindow == 60

\* the compiled value of afterglow_period_micros_: a build constant
kAfterglowPeriods == {20000000, 300000000}

\* the compiled value of enable_afterglow_
kEnableAfterglow == TRUE

(***************************************************************************)
(* The environment. A BoolEnvVar is its value(); a getenv() variable is    *)
(* unset or set to a text.                                                 *)
(***************************************************************************)
FlagNames ==
  {"set_processes_listening_on_ports", "set_import_users", "collect_connection_status",
   "enable_external_ips", "enable_connection_stats", "disable_network_flows",
   "ports_feature_flag", "network_drop_ignored", "set_curl_verbose",
   "set_enable_afterglow", "set_enable_core_dump"}

DefaultFlags ==
  [n \in FlagNames |->
     CASE n = "set_processes_listening_on_ports" -> kEnableProcessesListeningOnPorts
       [] n \in {"ports_feature_flag", "network_drop_ignored", "set_enable_afterglow",
                 "collect_connection_status", "enable_connection_stats"} -> TRUE
       [] OTHER -> FALSE]

DefaultIgnoredNetworks == <<"169.254.0.0/16", "fe80::/10">>

EnvUnset == [set |-> FALSE, v |-> <<>>]

EnvSet(str) == [set |-> TRUE, v |-> str]

DefaultEnv ==
  [flag |-> DefaultFlags,
   ignored_networks |-> DefaultIgnoredNetworks,
   ROX_AFTERGLOW_PERIOD |-> EnvUnset,
   ROX_COLLECTOR_CONNECTION_STATS_QUANTILES |-> EnvUnset,
   ROX_COLLECTOR_CONNECTION_STATS_ERROR |-> EnvUnset,
   ROX_COLLECTOR_CONNECTION_STATS_WINDOW |-> EnvUnset,
   ROX_COLLECTOR_SINSP_CPU_PER_BUFFER |-> EnvUnset,
   ROX_COLLECTOR_SINSP_BUFFER_SIZE |-> EnvUnset,
   ROX_COLLECTOR_SINSP_THREAD_CACHE_SIZE |-> EnvUnset]

(***************************************************************************)
(* IPNet::parse as the resolver sees it: a network or nothing.             *)
(***************************************************************************)
NoNet == [ok |-> FALSE, family |-> 0, address |-> "", bits |-> 0]

IPNetParse(str) ==
  CASE str = "169.254.0.0/16" -> [ok |-> TRUE, family |-> 4, address |-> "169.254.0.0", bits |-> 16]
    [] str = "fe80::/10" -> [ok |-> TRUE, family |-> 6, address |-> "fe80::", bits |-> 10]
    [] str = "10.0.0.0/8" -> [ok |-> TRUE, family |-> 4, address |-> "10.0.0.0", bits |-> 8]
    [] OTHER -> NoNet

(***************************************************************************)
(* logging::ParseLogLevelName                                              *)
(***************************************************************************)
ParseLogLevelName(str) ==
  CASE str = <<"d", "e", "b", "u", "g">> -> [ok |-> TRUE, level |-> "DEBUG"]
    [] str = <<"i", "n", "f", "o">> -> [ok |-> TRUE, level |-> "INFO"]
    [] OTHER -> [ok |-> FALSE, level |-> ""]

(***************************************************************************)
(* HostConfig: the decision of ProcessHostHeuristics.                      *)
(***************************************************************************)
NoDecision == [has |-> FALSE, method |-> "NONE"]

Decide(m) == [has |-> TRUE, method |-> m]

HostDecisions == {NoDecision} \cup {Decide(m) : m \in CollectionMethod}

(***************************************************************************)
(* Inputs of a resolution: the hostname, the build constants, the          *)
(* CollectorArgs and the environment. They are fixed for the life of the   *)
(* process. One group of inputs varies at a time, the others keep their    *)
(* defaults.                                                               *)
(***************************************************************************)
SeqsUpTo(S, n) == UNION {[1..k -> S] : k \in 0..n}

Hostnames == {"", "node-1"}

SyscallNames == {"accept", "ptrace"}

MethodStrings == {"", "ebpf", "core_bpf", "foo", "EBPF"}

ScrapeIntervalTexts ==
  {<<"6", "0">>, <<"1", "2", "a", "b", "c">>, <<"a", "b", "c">>, <<>>,
   <<"9", "9", "9", "9", "9", "9", "9", "9", "9", "9", "9">>}

\* the integer texts among the inputs that std::stoi rejects
MalformedIntTexts ==
  {<<"a", "b", "c">>, <<>>, <<"x">>,
   <<"9", "9", "9", "9", "9", "9", "9", "9", "9", "9", "9">>}

ScrapeIntervalValues == {JNull} \cup {JString(t) : t \in ScrapeIntervalTexts}

SyscallValues ==
  {JNull, JString(<<"r", "e", "a", "d">>)}
    \cup {JArray(a) : a \in SeqsUpTo(SyscallNames, MaxSyscalls)}

NoArgs ==
  [present |-> FALSE, logLevel |-> JNull, scrapeInterval |-> JNull, turnOffScrape |-> JNull,
   syscalls |-> JNull, tlsConfig |-> JNull, collection_method |-> ""]

ArgsMethod ==
  {NoArgs} \cup
  {[NoArgs EXCEPT !.present = TRUE, !.scrapeInterval = si, !.syscalls = sc, !.collection_method = cm] :
     si \in ScrapeIntervalValues, sc \in SyscallValues, cm \in MethodStrings}

ArgsMisc ==
  {[NoArgs EXCEPT !.present = TRUE, !.logLevel = ll, !.turnOffScrape = ts, !.tlsConfig = tc] :
     ll \in {JNull, JString(<<"d", "e", "b", "u", "g">>), JString(<<"l", "o", "u", "d">>)},
     ts \in {JNull, JBool(TRUE), JBool(FALSE)},
     tc \in {JNull, JObject(<<>>), JObject(<<"caCertPath">>)}}

AfterglowPeriodTexts ==
  {<<"4", "0", "0">>, <<"3", "0", "0">>, <<"3", "0", "0", ".", "5">>, <<"2", "0">>,
   <<"0">>, <<"-", "1">>, <<"0", ".", "5">>, <<"a", "b", "c">>,
   <<"0", ".", "0", "0", "0", "0", "0", "0", "1">>, <<"1", "e", "1", "4">>}

\* the texts of AfterglowPeriodTexts that denote more than 300 seconds
Above300Texts == {<<"4", "0", "0">>, <<"3", "0", "0", ".", "5">>, <<"1", "e", "1", "4">>}

QuantileTokens ==
  {<<"0", ".", "5">>, <<"b", "a", "d">>, <<"0", ".", "9", "9">>, <<>>, <<"0", ".", "9", "x">>}

\* what a quantile token denotes: std::stod reads the longest numeric prefix
TokenValue(tok) ==
  CASE tok = <<"0", ".", "5">> -> [ok |-> TRUE, v |-> Dec(5, 0 - 1)]
    [] tok = <<"0", ".", "9", "9">> -> [ok |-> TRUE, v |-> Dec(99, 0 - 2)]
    [] tok = <<"0", ".", "9", "x">> -> [ok |-> TRUE, v |-> Dec(9, 0 - 1)]
    [] OTHER -> [ok |-> FALSE, v |-> Dec(0, 0)]

TokenSeqs == SeqsUpTo(QuantileTokens, MaxTokens) \ {<<>>}

\* the tokens joined by commas: the text of the environment variable
RECURSIVE Join(_)
Join(toks) ==
  IF Len(toks) = 1 THEN toks[1] ELSE toks[1] \o <<",">> \o Join(Tail(toks))

FloatEnvValues ==
  {EnvUnset, EnvSet(<<"0", ".", "0", "5">>), EnvSet(<<"b", "a", "d">>),
   EnvSet(<<"1", "e", "9", "9", "9">>)}

\* the texts of FloatEnvValues that std::stod rejects
MalformedFloatTexts == {<<"b", "a", "d">>, <<"1", "e", "9", "9", "9">>}

IntEnvValues == {EnvUnset, EnvSet(<<"1", "2", "0">>), EnvSet(<<"x">>)}

NetStrings == {"", "169.254.0.0/16", "fe80::/10", "not-a-cidr"}

FlagChoices ==
  {f \in [FlagNames -> BOOLEAN] :
     Cardinality({n \in FlagNames : f[n] # DefaultFlags[n]}) <= MaxFlipped}

DefaultHost == [hostname |-> "node-1", decision |-> NoDecision]

DefaultBuild ==
  [kCollectionMethod |-> "CORE_BPF", afterglow_period_micros_ |-> 300000000,
   cast_out_of_range |-> I64Below]

DefaultInput == [host |-> DefaultHost, build |-> DefaultBuild, args |-> NoArgs, env |-> DefaultEnv]

InputsArgs ==
  {[DefaultInput EXCEPT !.host = [hostname |-> h, decision |-> d],
                        !.build.kCollectionMethod = k, !.args = a] :
     h \in Hostnames, d \in HostDecisions, k \in CollectionMethod, a \in ArgsMethod}

InputsMisc == {[DefaultInput EXCEPT !.args = a] : a \in ArgsMisc}

InputsAfterglow ==
  {[DefaultInput EXCEPT !.build.afterglow_period_micros_ = k,
                        !.build.cast_out_of_range = ub,
                        !.env.flag["set_enable_afterglow"] = fl,
                        !.env.ROX_AFTERGLOW_PERIOD = p] :
     k \in kAfterglowPeriods, ub \in UBCastOutcomes, fl \in BOOLEAN,
     p \in {EnvUnset} \cup {EnvSet(t) : t \in AfterglowPeriodTexts}}

InputsQuantiles ==
  {[DefaultInput EXCEPT !.env.ROX_COLLECTOR_CONNECTION_STATS_QUANTILES = q] :
     q \in {EnvUnset} \cup {EnvSet(Join(toks)) : toks \in TokenSeqs}}

InputsNumeric ==
  {[DefaultInput EXCEPT !.args = [NoArgs EXCEPT !.present = TRUE, !.scrapeInterval = si],
                        !.env.ROX_COLLECTOR_CONNECTION_STATS_ERROR = er,
                        !.env.ROX_COLLECTOR_CONNECTION_STATS_WINDOW = wi,
                        !.env.ROX_COLLECTOR_SINSP_CPU_PER_BUFFER = cp,
                        !.env.ROX_COLLECTOR_SINSP_BUFFER_SIZE = bs,
                        !.env.ROX_COLLECTOR_SINSP_THREAD_CACHE_SIZE = tc] :
     si \in {JNull, JString(<<"6", "0">>), JString(<<"a", "b", "c">>)},
     er \in FloatEnvValues, wi \in IntEnvValues, cp \in IntEnvValues,
     bs \in IntEnvValues, tc \in IntEnvValues}

InputsNetworks ==
  {[DefaultInput EXCEPT !.env.ignored_networks = n] : n \in SeqsUpTo(NetStrings, MaxNets)}

InputsFlags == {[DefaultInput EXCEPT !.env.flag = f] : f \in FlagChoices}

Inputs ==
  InputsArgs \cup InputsMisc \cup InputsAfterglow \cup InputsQuantiles
    \cup InputsNumeric \cup InputsNetworks \cup InputsFlags

(***************************************************************************)
(* The CollectorConfig object after construction.                          *)
(***************************************************************************)
ConstructedConfig(b) ==
  [scrape_interval_ |-> kScrapeInterval,
   turn_off_scrape_ |-> kTurnOffScrape,
   collection_method_ |-> b.kCollectionMethod,
   enable_processes_listening_on_ports_ |-> FALSE,
   import_users_ |-> FALSE,
   collect_connection_status_ |-> FALSE,
   enable_external_ips_ |-> FALSE,
   enable_connection_stats_ |-> FALSE,
   syscalls_ |-> <<>>,
   hostname_ |-> "",
   host_proc_ |-> <<"", "">>,
   tls_config_ |-> JNull,
   disable_network_flows_ |-> FALSE,
   scrape_listen_endpoints_ |-> FALSE,
   ignored_l4proto_port_pairs_ |-> {},
   ignored_networks_ |-> <<>>,
   curl_verbose_ |-> FALSE,
   enable_core_dump_ |-> FALSE,
   enable_afterglow_ |-> kEnableAfterglow,
   afterglow_period_micros_ |-> I64(b.afterglow_period_micros_),
   connection_stats_quantiles_ |-> <<>>,
   connection_stats_error_ |-> Dec(0, 0),
   connection_stats_window_ |-> 0,
   sinsp_cpu_per_buffer_ |-> 0,
   sinsp_buffer_size_ |-> 0,
   sinsp_thread_cache_size_ |-> kSinspThreadCacheSize,
   host_config_ |-> NoDecision]

Init ==
  \E i \in Inputs :
    /\ host = i.host
    /\ build = i.build
    /\ args = i.args
    /\ env = i.env
    /\ config = ConstructedConfig(i.build)
    /\ log_level = "INFO"
    /\ pc = "ready"
    /\ runs = 0
    /\ first = [set |-> FALSE, config |-> ConstructedConfig(i.build)]
    /\ log = <<>>
    /\ steps = <<>>

(***************************************************************************)
(* The pieces of InitCollectorConfig.                                      *)
(***************************************************************************)
Info(text) == <<"INFO", text>>

Warning(text) == <<"WARNING", text>>

Error(text) == <<"ERROR", text>>

Fatal(text) == <<"FATAL", text>>

\* for (const auto& syscall : kSyscalls) syscalls_.push_back(syscall);
PushSyscalls(cur) == cur \o kSyscalls

GetHostname == host.hostname

GetHostPath(path) == <<"/host", path>>

\* if (hostname_.empty()) CLOG(FATAL)
HostnameNeverFatal(h) == FALSE

HostnameFatal(h) == h = ""

\* CLOG(FATAL) ends the process: no statement after it is executed
FatalPc == "aborted"

\* scrape_interval_ = std::stoi(config["scrapeInterval"].asString()), with no
\* handler around it: an exception of std::stoi leaves InitCollectorConfig
ScrapeIntervalKeep(json, cur) == [threw |-> FALSE, v |-> cur]

ScrapeIntervalOf(r, cur) ==
  IF r.err # "none" THEN [threw |-> TRUE, v |-> cur] ELSE [threw |-> FALSE, v |-> r.v]

ScrapeInterval(json, cur) ==
  IF ~JsonEmpty(json) THEN ScrapeIntervalOf(Stoi(AsString(json)), cur)
  ELSE [threw |-> FALSE, v |-> cur]

\* the syscalls of the blob replace syscalls_
MergeSyscalls(cur, json) ==
  IF ~JsonEmpty(json) /\ IsArray(json) THEN cur \o json.a ELSE cur

ReplaceSyscalls(cur, json) ==
  IF ~JsonEmpty(json) /\ IsArray(json) THEN [i \in 1..Len(json.a) |-> json.a[i]] ELSE cur

\* the collection method of the args
CollectionMethodKeepUnknown(cm, cur) ==
  IF cm # "" THEN (IF cm = "ebpf" THEN "EBPF" ELSE IF cm = "core_bpf" THEN "CORE_BPF" ELSE cur)
  ELSE cur

ResolveCollectionMethod(cm, cur) ==
  IF cm # ""
  THEN IF cm = "ebpf" THEN "EBPF"
       ELSE IF cm = "core_bpf" THEN "CORE_BPF"
       ELSE "CORE_BPF"
  ELSE cur

CollectionMethodLog(cm) ==
  IF cm # ""
  THEN <<Info("User configured collection-method")>>
         \o (IF cm \notin {"ebpf", "core_bpf"} THEN <<Warning("Invalid collection-method")>> ELSE <<>>)
  ELSE <<>>

\* if (args) { ... }: the result of the block, or the state in which an
\* exception left it
ApplyUserConfig(c, a, lvl) ==
  LET ll == IF ~JsonEmpty(a.logLevel) THEN ParseLogLevelName(AsString(a.logLevel))
            ELSE [ok |-> FALSE, level |-> ""]
      lvl1 == IF ll.ok THEN ll.level ELSE lvl
      log1 == IF JsonEmpty(a.logLevel) THEN <<>>
              ELSE IF ll.ok THEN <<Info("User configured logLevel")>>
              ELSE <<Info("User configured logLevel is invalid")>>
      si == ScrapeInterval(a.scrapeInterval, c.scrape_interval_)
      log2 == IF ~JsonEmpty(a.scrapeInterval) /\ ~si.threw
              THEN <<Info("User configured scrapeInterval")>> ELSE <<>>
      log3 == IF ~JsonEmpty(a.turnOffScrape) THEN <<Info("User configured turnOffScrape")>> ELSE <<>>
      log4 == IF ~JsonEmpty(a.syscalls) /\ IsArray(a.syscalls)
              THEN <<Info("User configured syscalls")>> ELSE <<>>
  IN IF si.threw
     THEN [threw |-> TRUE, config |-> c, log_level |-> lvl1, log |-> log1]
     ELSE [threw |-> FALSE,
           config |-> [c EXCEPT
             !.scrape_interval_ = si.v,
             !.turn_off_scrape_ = IF ~JsonEmpty(a.turnOffScrape) THEN AsBool(a.turnOffScrape) ELSE @,
             !.syscalls_ = ReplaceSyscalls(@, a.syscalls),
             !.collection_method_ = ResolveCollectionMethod(a.collection_method, @),
             !.tls_config_ = IF ~JsonEmpty(a.tlsConfig) THEN a.tlsConfig ELSE @],
           log_level |-> lvl1,
           log |-> log1 \o log2 \o log3 \o log4 \o CollectionMethodLog(a.collection_method)]

\* std::for_each over ignored_networks.value()
RECURSIVE IgnoredNetworksStopAtError(_, _)
IgnoredNetworksStopAtError(cur, list) ==
  IF list = <<>> THEN [nets |-> cur, log |-> <<>>]
  ELSE LET str == Head(list)
           net == IPNetParse(str)
       IN IF str = "" THEN IgnoredNetworksStopAtError(cur, Tail(list))
          ELSE IF net.ok
               THEN LET r == IgnoredNetworksStopAtError(Append(cur, net), Tail(list))
                    IN [nets |-> r.nets, log |-> <<Info("Ignore network")>> \o r.log]
          ELSE [nets |-> cur, log |-> <<Error("Invalid network in ROX_IGNORE_NETWORKS")>>]

RECURSIVE ParseIgnoredNetworks(_, _)
ParseIgnoredNetworks(cur, list) ==
  IF list = <<>> THEN [nets |-> cur, log |-> <<>>]
  ELSE LET str == Head(list)
           net == IPNetParse(str)
       IN IF str = "" THEN ParseIgnoredNetworks(cur, Tail(list))
          ELSE IF net.ok
               THEN LET r == ParseIgnoredNetworks(Append(cur, net), Tail(list))
                    IN [nets |-> r.nets, log |-> <<Info("Ignore network")>> \o r.log]
          ELSE LET r == ParseIgnoredNetworks(cur, Tail(list))
               IN [nets |-> r.nets, log |-> <<Error("Invalid network in ROX_IGNORE_NETWORKS")>> \o r.log]

(***************************************************************************)
(* HandleAfterglowEnvVars                                                  *)
(***************************************************************************)
\* if (enable_afterglow_ && afterglow_period_micros_ > 0)
AfterglowActiveAtZero(enabled, period) == enabled /\ ~I64Less(period, I64(0))

AfterglowActive(enabled, period) == enabled /\ I64Less(I64(0), period)

\* cast: static_cast<int64_t>(atof(afterglow_period) * 1000000)
AfterglowResolve(c, flag, envvar, cast) ==
  LET e1 == IF ~flag THEN FALSE ELSE c.enable_afterglow_
      p1 == IF envvar.set THEN cast ELSE c.afterglow_period_micros_
      over == I64Less(I64(max_afterglow_period_micros), p1)
      p2 == IF over THEN I64(max_afterglow_period_micros) ELSE p1
      log1 == IF over THEN <<Error("User set afterglow period is greater than the maximum"),
                             Error("Setting the afterglow period to the maximum")>>
              ELSE <<>>
  IN IF AfterglowActive(e1, p2)
     THEN [enabled |-> e1, period |-> p2, log |-> log1 \o <<Info("Afterglow is enabled")>>]
     ELSE IF ~e1
     THEN [enabled |-> e1, period |-> p2, log |-> log1 \o <<Info("Afterglow is disabled")>>]
     ELSE [enabled |-> FALSE, period |-> p2,
           log |-> log1
                   \o (IF I64Less(p2, I64(0)) THEN <<Error("Invalid afterglow period")>>
                       ELSE <<Error("Afterglow period set to 0")>>)
                   \o <<Info("Disabling afterglow")>>]

(***************************************************************************)
(* HandleConnectionStatsEnvVars and HandleSinspEnvVars                     *)
(***************************************************************************)
\* index of the first "," of raw at or after p, 0 if there is none
RECURSIVE FindComma(_, _)
FindComma(raw, p) ==
  IF p > Len(raw) THEN 0 ELSE IF raw[p] = "," THEN p ELSE FindComma(raw, p + 1)

\* while (quantiles.good()) { std::getline(quantiles, quantile, ','); ... }
\* p: the read position of the stream. A getline that ends at the end of the
\* text sets eofbit, one that ends at a delimiter leaves the stream good.
PushQuantile(acc, r) ==
  IF r.err = "none"
  THEN [q |-> Append(acc.q, r.v), log |-> Append(acc.log, Info("Connection statistics quantile"))]
  ELSE [q |-> acc.q, log |-> Append(acc.log, Error("Invalid quantile value"))]

RECURSIVE GetlineLoop(_, _, _)
GetlineTo(raw, p, c, acc) ==
  IF c = 0 THEN PushQuantile(acc, Stod(SubSeq(raw, p, Len(raw))))
  ELSE GetlineLoop(raw, c + 1, PushQuantile(acc, Stod(SubSeq(raw, p, c - 1))))

GetlineLoop(raw, p, acc) == GetlineTo(raw, p, FindComma(raw, p), acc)

QuantilesKeepDefaults(envvar) ==
  IF envvar.set THEN GetlineLoop(envvar.v, 1, [q |-> kConnectionStatsQuantiles, log |-> <<>>])
  ELSE [q |-> kConnectionStatsQuantiles, log |-> <<>>]

Quantiles(envvar) ==
  IF envvar.set THEN GetlineLoop(envvar.v, 1, [q |-> <<>>, log |-> <<>>])
  ELSE [q |-> kConnectionStatsQuantiles, log |-> <<>>]

\* try { x = std::stod(envvar) or std::stoi(envvar); } catch (...) { CLOG(ERROR) }
\* r: the result of the conversion
ParsedOrKeep(r, cur, what) ==
  IF r.err = "none" THEN [v |-> r.v, log |-> <<Info(what)>>]
  ELSE [v |-> cur, log |-> <<Error(what)>>]

StodOrKeep(envvar, cur, what) ==
  IF envvar.set THEN ParsedOrKeep(Stod(envvar.v), cur, what) ELSE [v |-> cur, log |-> <<>>]

StoiOrKeep(envvar, cur, what) ==
  IF envvar.set THEN ParsedOrKeep(Stoi(envvar.v), cur, what) ELSE [v |-> cur, log |-> <<>>]

(***************************************************************************)
(* CollectorConfig::GetCollectionMethod                                    *)
(***************************************************************************)
GetCollectionMethodStored == config.collection_method_

GetCollectionMethod ==
  IF config.host_config_.has THEN config.host_config_.method ELSE config.collection_method_

(***************************************************************************)
(* InitCollectorConfig, statement group by statement group. pc is the      *)
(* position of the single thread that resolves the configuration.          *)
(***************************************************************************)
ReadFeatureFlags ==
  /\ pc = "ready"
  /\ runs' = runs + 1
  /\ config' = [config EXCEPT
       !.enable_processes_listening_on_ports_ = env.flag["set_processes_listening_on_ports"],
       !.import_users_ = env.flag["set_import_users"],
       !.collect_connection_status_ = env.flag["collect_connection_status"],
       !.enable_external_ips_ = env.flag["enable_external_ips"],
       !.enable_connection_stats_ = env.flag["enable_connection_stats"],
       !.syscalls_ = PushSyscalls(@)]
  /\ pc' = "hostname"
  /\ steps' = Append(steps, "flags")
  /\ UNCHANGED <<inputs, log_level, first, log>>

ResolveHostname ==
  /\ pc = "hostname"
  /\ LET h == GetHostname
     IN IF HostnameFatal(h)
        THEN /\ config' = [config EXCEPT !.hostname_ = h]
             /\ log' = Append(log, Fatal("Unable to determine the hostname"))
             /\ pc' = FatalPc
        ELSE /\ config' = [config EXCEPT !.hostname_ = h, !.host_proc_ = GetHostPath("/proc")]
             /\ log' = log
             /\ pc' = "args"
  /\ steps' = Append(steps, "hostname")
  /\ UNCHANGED <<inputs, log_level, first, runs>>

ApplyArgs ==
  /\ pc = "args"
  /\ IF args.present
     THEN LET r == ApplyUserConfig(config, args, log_level)
          IN /\ config' = r.config
             /\ log_level' = r.log_level
             /\ log' = log \o r.log
             /\ pc' = IF r.threw THEN "threw" ELSE "network_flags"
     ELSE /\ pc' = "network_flags"
          /\ UNCHANGED <<config, log_level, log>>
  /\ steps' = Append(steps, "args")
  /\ UNCHANGED <<inputs, first, runs>>

ApplyNetworkFlags ==
  /\ pc = "network_flags"
  /\ config' = [config EXCEPT
       !.disable_network_flows_ = IF env.flag["disable_network_flows"] THEN TRUE ELSE @,
       !.scrape_listen_endpoints_ = IF env.flag["ports_feature_flag"] THEN TRUE ELSE @,
       !.ignored_l4proto_port_pairs_ =
          IF env.flag["network_drop_ignored"] THEN kIgnoredL4ProtoPortPairs ELSE @]
  /\ pc' = "ignored_networks"
  /\ steps' = Append(steps, "network_flags")
  /\ UNCHANGED <<inputs, log_level, first, runs, log>>

IgnoredNetworks ==
  /\ pc = "ignored_networks"
  /\ LET r == ParseIgnoredNetworks(config.ignored_networks_, env.ignored_networks)
     IN /\ config' = [config EXCEPT !.ignored_networks_ = r.nets]
        /\ log' = log \o r.log
  /\ pc' = "debug_flags"
  /\ steps' = Append(steps, "ignored_networks")
  /\ UNCHANGED <<inputs, log_level, first, runs>>

ApplyDebugFlags ==
  /\ pc = "debug_flags"
  /\ config' = [config EXCEPT
       !.curl_verbose_ = IF env.flag["set_curl_verbose"] THEN TRUE ELSE @,
       !.enable_core_dump_ = IF env.flag["set_enable_core_dump"] THEN TRUE ELSE @]
  /\ pc' = "afterglow"
  /\ steps' = Append(steps, "debug_flags")
  /\ UNCHANGED <<inputs, log_level, first, runs, log>>

HandleAfterglowEnvVars ==
  /\ pc = "afterglow"
  /\ LET r == AfterglowResolve(config, env.flag["set_enable_afterglow"],
                               env.ROX_AFTERGLOW_PERIOD,
                               CastMicros(Atof(env.ROX_AFTERGLOW_PERIOD.v), build.cast_out_of_range))
     IN /\ config' = [config EXCEPT !.enable_afterglow_ = r.enabled,
                                    !.afterglow_period_micros_ = r.period]
        /\ log' = log \o r.log
  /\ pc' = "connection_stats"
  /\ steps' = Append(steps, "afterglow")
  /\ UNCHANGED <<inputs, log_level, first, runs>>

HandleConnectionStatsEnvVars ==
  /\ pc = "connection_stats"
  /\ LET q == Quantiles(env.ROX_COLLECTOR_CONNECTION_STATS_QUANTILES)
         e == StodOrKeep(env.ROX_COLLECTOR_CONNECTION_STATS_ERROR, kConnectionStatsError,
                         "quantile error value")
         w == StoiOrKeep(env.ROX_COLLECTOR_CONNECTION_STATS_WINDOW, kConnectionStatsWindow,
                         "window length value")
     IN /\ config' = [config EXCEPT !.connection_stats_quantiles_ = q.q,
                                    !.connection_stats_error_ = e.v,
                                    !.connection_stats_window_ = w.v]
        /\ log' = log \o q.log \o e.log \o w.log
  /\ pc' = "sinsp"
  /\ steps' = Append(steps, "connection_stats")
  /\ UNCHANGED <<inputs, log_level, first, runs>>

HandleSinspEnvVars ==
  /\ pc = "sinsp"
  /\ LET c == StoiOrKeep(env.ROX_COLLECTOR_SINSP_CPU_PER_BUFFER, DEFAULT_CPU_FOR_EACH_BUFFER,
                         "cpu per buffer value")
         b == StoiOrKeep(env.ROX_COLLECTOR_SINSP_BUFFER_SIZE, DEFAULT_DRIVER_BUFFER_BYTES_DIM,
                         "buffer size value")
         t == StoiOrKeep(env.ROX_COLLECTOR_SINSP_THREAD_CACHE_SIZE, config.sinsp_thread_cache_size_,
                         "thread cache size value")
     IN /\ config' = [config EXCEPT !.sinsp_cpu_per_buffer_ = c.v,
                                    !.sinsp_buffer_size_ = b.v,
                                    !.sinsp_thread_cache_size_ = t.v]
        /\ log' = log \o c.log \o b.log \o t.log
  /\ pc' = "heuristics"
  /\ steps' = Append(steps, "sinsp")
  /\ UNCHANGED <<inputs, log_level, first, runs>>

\* host_config_ = ProcessHostHeuristics(*this); InitCollectorConfig returns
ProcessHostHeuristics ==
  /\ pc = "heuristics"
  /\ config' = [config EXCEPT !.host_config_ = host.decision]
  /\ first' = IF first.set THEN first ELSE [set |-> TRUE, config |-> config']
  /\ pc' = "done"
  /\ steps' = Append(steps, "heuristics")
  /\ UNCHANGED <<inputs, log_level, runs, log>>

\* InitCollectorConfig is called again on the same object
Reinvoke ==
  /\ pc = "done"
  /\ runs < MaxRuns
  /\ pc' = "ready"
  /\ UNCHANGED <<inputs, config, log_level, runs, first, log, steps>>

Next ==
  \/ ReadFeatureFlags
  \/ ResolveHostname
  \/ ApplyArgs
  \/ ApplyNetworkFlags
  \/ IgnoredNetworks
  \/ ApplyDebugFlags
  \/ HandleAfterglowEnvVars
  \/ HandleConnectionStatsEnvVars
  \/ HandleSinspEnvVars
  \/ ProcessHostHeuristics

NextRerun == Next \/ Reinvoke

\* one resolution of a freshly constructed CollectorConfig
Spec == Init /\ [][Next]_vars

\* InitCollectorConfig may be called again on the resolved object
SpecRerun == Init /\ [][NextRerun]_vars

(***************************************************************************)
(* Properties.                                                             *)
(***************************************************************************)
Resolved == pc = "done"

AfterAfterglow == pc \in {"connection_stats", "sinsp", "heuristics", "done"}

AfterConnectionStats == pc \in {"sinsp", "heuristics", "done"}

AfterIgnoredNetworks ==
  pc \in {"debug_flags", "afterglow", "connection_stats", "sinsp", "heuristics", "done"}

LaterSteps ==
  {"args", "network_flags", "ignored_networks", "debug_flags", "afterglow",
   "connection_stats", "sinsp", "heuristics"}

CountLog(entry) == Cardinality({i \in DOMAIN log : log[i] = entry})

\* the method that the compiled default and the args selector call for
MethodOfArgs ==
  IF ~args.present \/ args.collection_method = "" THEN build.kCollectionMethod
  ELSE IF args.collection_method = "ebpf" THEN "EBPF"
  ELSE "CORE_BPF"

\* C1: once InitCollectorConfig has completed, GetCollectionMethod() is the
\* method of the host-heuristics decision whenever the decision has one, and
\* the method resolved from the compiled default and the args only when the
\* decision has none.
C1_HeuristicsOverride ==
  Resolved =>
    GetCollectionMethod = IF host.decision.has THEN host.decision.method ELSE MethodOfArgs

C1_Witness ==
  /\ Resolved
  /\ host.decision = Decide("EBPF")
  /\ args.present /\ args.collection_method = "core_bpf"
  /\ config.collection_method_ = "CORE_BPF"
  /\ GetCollectionMethod = "EBPF"

\* the supplied periods that are exactly zero or negative
NonPositiveTexts == {<<"0">>, <<"-", "1">>}

\* C2: after HandleAfterglowEnvVars afterglow is enabled if and only if
\* ROX_ENABLE_AFTERGLOW is true and the period in microseconds is greater
\* than 0; a false flag ends disabled whatever the period, a true flag with a
\* period of 0 or a negative period ends disabled.
C2_AfterglowEnabledIff ==
  AfterAfterglow =>
    /\ config.enable_afterglow_ <=>
         (env.flag["set_enable_afterglow"] /\ I64Less(I64(0), config.afterglow_period_micros_))
    /\ ~env.flag["set_enable_afterglow"] => ~config.enable_afterglow_
    /\ (env.ROX_AFTERGLOW_PERIOD.set /\ env.ROX_AFTERGLOW_PERIOD.v \in NonPositiveTexts)
         => ~config.enable_afterglow_

C2_Witness ==
  /\ Resolved
  /\ env.flag["set_enable_afterglow"]
  /\ env.ROX_AFTERGLOW_PERIOD = EnvSet(<<"0">>)
  /\ ~config.enable_afterglow_
  /\ config.afterglow_period_micros_ = I64(0)

\* C3: every supplied ROX_AFTERGLOW_PERIOD above 300 seconds, with the
\* enablement flag true, resolves to a period of exactly 300,000,000
\* microseconds with afterglow enabled; and whenever afterglow is enabled the
\* period lies in [0, 300,000,000].
C3_ClampedToMaximum ==
  Resolved =>
    /\ (env.flag["set_enable_afterglow"] /\ env.ROX_AFTERGLOW_PERIOD.set
          /\ env.ROX_AFTERGLOW_PERIOD.v \in Above300Texts)
         => (config.afterglow_period_micros_ = I64(max_afterglow_period_micros)
               /\ config.enable_afterglow_)
    /\ config.enable_afterglow_
         => (~I64Less(config.afterglow_period_micros_, I64(0))
               /\ ~I64Less(I64(max_afterglow_period_micros), config.afterglow_period_micros_))

\* C4: with an empty hostname InitCollectorConfig never completes, no step
\* after the hostname check is executed and no resolved configuration is
\* produced; with a non-empty hostname the fatal exit is never taken.
C4_EmptyHostnameFatal ==
  /\ host.hostname = "" =>
       /\ pc \in {"ready", "hostname", "aborted"}
       /\ \A i \in DOMAIN steps : steps[i] \notin LaterSteps
       /\ ~first.set
  /\ host.hostname # "" => pc # "aborted"

C4_Witness ==
  /\ pc = "aborted"
  /\ host.hostname = ""
  /\ steps = <<"flags", "hostname">>
  /\ log = <<Fatal("Unable to determine the hostname")>>

MalformedScrapeInterval ==
  /\ args.present
  /\ args.scrapeInterval.t = "string"
  /\ args.scrapeInterval.s \in MalformedIntTexts

Malformed(envvar, texts) == envvar.set /\ envvar.v \in texts

\* C5: a scrapeInterval of the blob that is present and does not parse as an
\* integer ends InitCollectorConfig in a propagated failure: nothing after
\* the args block is executed and the failure is not logged away. Every
\* malformed integer or float environment value (connection-stats error and
\* window, the three sinsp settings) is logged as an error and leaves its
\* default in place, and resolution completes.
C5_ScrapeIntervalPropagates ==
  /\ (MalformedScrapeInterval /\ host.hostname # "") =>
       /\ pc \in {"ready", "hostname", "args", "threw"}
       /\ (pc = "threw" => config.scrape_interval_ = kScrapeInterval)
       /\ \A i \in DOMAIN steps : steps[i] \notin (LaterSteps \ {"args"})
  /\ ~MalformedScrapeInterval => pc # "threw"
  /\ Resolved =>
       /\ Malformed(env.ROX_COLLECTOR_CONNECTION_STATS_ERROR, MalformedFloatTexts)
            => (config.connection_stats_error_ = kConnectionStatsError
                  /\ CountLog(Error("quantile error value")) = 1)
       /\ Malformed(env.ROX_COLLECTOR_CONNECTION_STATS_WINDOW, MalformedIntTexts)
            => (config.connection_stats_window_ = kConnectionStatsWindow
                  /\ CountLog(Error("window length value")) = 1)
       /\ Malformed(env.ROX_COLLECTOR_SINSP_CPU_PER_BUFFER, MalformedIntTexts)
            => (config.sinsp_cpu_per_buffer_ = DEFAULT_CPU_FOR_EACH_BUFFER
                  /\ CountLog(Error("cpu per buffer value")) = 1)
       /\ Malformed(env.ROX_COLLECTOR_SINSP_BUFFER_SIZE, MalformedIntTexts)
            => (config.sinsp_buffer_size_ = DEFAULT_DRIVER_BUFFER_BYTES_DIM
                  /\ CountLog(Error("buffer size value")) = 1)
       /\ Malformed(env.ROX_COLLECTOR_SINSP_THREAD_CACHE_SIZE, MalformedIntTexts)
            => (config.sinsp_thread_cache_size_ = kSinspThreadCacheSize
                  /\ CountLog(Error("thread cache size value")) = 1)

C5_Witness ==
  /\ pc = "threw"
  /\ args.scrapeInterval = JString(<<"a", "b", "c">>)
  /\ Malformed(env.ROX_COLLECTOR_CONNECTION_STATS_WINDOW, MalformedIntTexts)
  /\ config.scrape_interval_ = kScrapeInterval

\* the values of the tokens that parse, in the order of the tokens
ParsedTokens(toks) ==
  LET good == SelectSeq(toks, LAMBDA t : TokenValue(t).ok)
  IN [i \in 1..Len(good) |-> TokenValue(good[i]).v]

\* C6: when ROX_COLLECTOR_CONNECTION_STATS_QUANTILES is present the quantile
\* list is exactly the values of its comma-separated tokens that parse as
\* numbers, in order, with one error logged per token that does not parse
\* and none of the defaults inherited; when it is absent the list is
\* {0.50, 0.90, 0.95}.
C6_QuantilesReplaceDefaults ==
  AfterConnectionStats =>
    IF env.ROX_COLLECTOR_CONNECTION_STATS_QUANTILES.set
    THEN \A toks \in TokenSeqs :
           env.ROX_COLLECTOR_CONNECTION_STATS_QUANTILES.v = Join(toks) =>
             /\ config.connection_stats_quantiles_ = ParsedTokens(toks)
             /\ CountLog(Error("Invalid quantile value")) = Len(toks) - Len(ParsedTokens(toks))
    ELSE config.connection_stats_quantiles_ = <<Dec(5, 0 - 1), Dec(9, 0 - 1), Dec(95, 0 - 2)>>

C6_Witness ==
  /\ Resolved
  /\ env.ROX_COLLECTOR_CONNECTION_STATS_QUANTILES =
       EnvSet(<<"0", ".", "5", ",", "b", "a", "d", ",", "0", ".", "9", "9">>)
  /\ config.connection_stats_quantiles_ = <<Dec(5, 0 - 1), Dec(99, 0 - 2)>>
  /\ CountLog(Error("Invalid quantile value")) = 1

\* the entries that are kept: not empty and a CIDR prefix
KeptNetworks(list) == SelectSeq(list, LAMBDA str : str # "" /\ IPNetParse(str).ok)

DroppedNetworks(list) == SelectSeq(list, LAMBDA str : str # "" /\ ~IPNetParse(str).ok)

\* C7: the ignored-network list is exactly the entries of ROX_IGNORE_NETWORKS
\* (or of its default) that are not empty and parse as a CIDR prefix, in
\* input order; every malformed entry is logged and dropped and the entries
\* after it are still kept.
C7_IgnoredNetworksFiltered ==
  AfterIgnoredNetworks =>
    /\ config.ignored_networks_ =
         [i \in 1..Len(KeptNetworks(env.ignored_networks)) |->
            IPNetParse(KeptNetworks(env.ignored_networks)[i])]
    /\ CountLog(Error("Invalid network in ROX_IGNORE_NETWORKS")) =
         Len(DroppedNetworks(env.ignored_networks))
    /\ \A i \in DOMAIN config.ignored_networks_ : config.ignored_networks_[i].ok

C7_Witness ==
  /\ Resolved
  /\ env.ignored_networks = <<"169.254.0.0/16", "not-a-cidr", "fe80::/10">>
  /\ Len(config.ignored_networks_) = 2
  /\ config.ignored_networks_[2].address = "fe80::"

\* C8: after resolution the stored collection method is EBPF or CORE_BPF:
\* "ebpf" gives EBPF, "core_bpf" gives CORE_BPF, any other non-empty selector
\* gives CORE_BPF with a warning, and an empty selector or absent args leave
\* the compiled default kCollectionMethod.
C8_StoredMethod ==
  Resolved =>
    /\ config.collection_method_ \in CollectionMethod
    /\ (args.present /\ args.collection_method = "ebpf") => config.collection_method_ = "EBPF"
    /\ (args.present /\ args.collection_method = "core_bpf")
         => config.collection_method_ = "CORE_BPF"
    /\ (args.present /\ args.collection_method \notin {"", "ebpf", "core_bpf"})
         => (config.collection_method_ = "CORE_BPF"
               /\ CountLog(Warning("Invalid collection-method")) = 1)
    /\ (~args.present \/ args.collection_method = "")
         => (config.collection_method_ = build.kCollectionMethod
               /\ CountLog(Warning("Invalid collection-method")) = 0)

C8_Witness ==
  /\ Resolved
  /\ build.kCollectionMethod = "EBPF"
  /\ args.present /\ args.collection_method = "foo"
  /\ config.collection_method_ = "CORE_BPF"

\* C9 as stated: a syscalls field that is present and array-shaped replaces
\* the syscall list by the user's array; an absent or not array-shaped field
\* leaves exactly kSyscalls.
C9_ArrayReplaces ==
  Resolved =>
    IF args.present /\ args.syscalls.t = "array"
    THEN config.syscalls_ = args.syscalls.a
    ELSE config.syscalls_ = kSyscalls

\* C9 as amended: a syscalls field that is a non-empty array replaces the
\* syscall list by exactly the user's array, in the user's order, with no
\* default syscall that the user did not list; a field that is absent, an
\* empty array or not array-shaped leaves exactly kSyscalls.
C9_NonEmptyArrayReplaces ==
  Resolved =>
    IF args.present /\ args.syscalls.t = "array" /\ Len(args.syscalls.a) > 0
    THEN /\ config.syscalls_ = args.syscalls.a
         /\ \A i \in DOMAIN config.syscalls_ :
              \E j \in DOMAIN args.syscalls.a : config.syscalls_[i] = args.syscalls.a[j]
    ELSE config.syscalls_ = kSyscalls

C9_Witness ==
  /\ Resolved
  /\ args.present /\ args.syscalls = JArray(<<"ptrace">>)
  /\ config.syscalls_ = <<"ptrace">>

\* C10: a second run of InitCollectorConfig with the same environment, args,
\* hostname and heuristics result yields a configuration that is field for
\* field the one of the first run, syscall list and ignored-network list
\* included.
C10_SecondRunIdentical ==
  (Resolved /\ runs = 2) => config = first.config

====
